---------------------------- MODULE Spec2Model ----------------------------
(***************************************************************************)
(* A model of psila-ai/orasort: the index sort orasort, its in-place       *)
(* wrapper orasort_mut with apply_permutation, the offset entry points     *)
(* orasort_from_indices and orasort_slice, the driver cps_quicksort, the   *)
(* radix step aqs_radix and the comparator compare_entries (src/src/       *)
(* algo.rs), over the accessor KeyAccessor::get_u64_prefix (src/src/       *)
(* core.rs).                                                               *)
(*                                                                         *)
(* Scaling.  A byte is BYTE_BITS wide (8 in the program), so the u64 cache *)
(* is a word of SPLICE_PREFIX_SIZE byte lanes, WORD_BITS wide, held as a   *)
(* natural number below 2^WORD_BITS; every shift, xor and comparison is    *)
(* done on that number.  RADIX_SORT_THRESHOLD and NO_ALLOC_THRESHOLD are   *)
(* 1024 and 32 in the program and are scaled down so that the regions that *)
(* cross them can be enumerated.  SPLICE_PREFIX_SIZE keeps its value.      *)
(*                                                                         *)
(* The recursion cps_quicksort -> aqs_radix -> cps_quicksort is a stack of *)
(* frames; slice.sort_unstable_by (the standard library's unstable sort)   *)
(* is any rearrangement of the region that is ordered by the comparator.   *)
(***************************************************************************)
EXTENDS Integers, Sequences, FiniteSets, TLC

(***************************************************************************)
(* Bounds of the model.                                                    *)
(***************************************************************************)
\* rows of an input of orasort: 0..MaxRows
MaxRows == 4
\* rows of an input of orasort_mut: 0..MaxMutRows
MaxMutRows == 3
\* width of a byte in bits (8 in the program)
BYTE_BITS == 2
\* core.rs:10
SPLICE_PREFIX_SIZE == 8
\* algo.rs:15 (1024 in the program)
RADIX_SORT_THRESHOLD == 2
\* algo.rs:14 (32 in the program)
NO_ALLOC_THRESHOLD == 2
\* longest key the accessor is checked on
MaxPrefixKeyLen == 9
\* longest sequence apply_permutation is checked on
MaxPermLen == 5
\* rows of the accessor and length of the index list of the offset entry points
MaxSliceRows == 2
MaxIndices == 3

RECURSIVE Pow2Rec(_)
Pow2Rec(n) == IF n = 0 THEN 1 ELSE 2 * Pow2Rec(n - 1)

\* the powers of two an i32 holds, computed once
Pow2Table == [n \in 0..30 |-> Pow2Rec(n)]

Pow2(n) == Pow2Table[n]

WORD_BITS == SPLICE_PREFIX_SIZE * BYTE_BITS
WordMod == Pow2(WORD_BITS)
ByteMod == Pow2(BYTE_BITS)
\* algo.rs:204
RADIX_BUCKETS == ByteMod

Min(a, b) == IF a < b THEN a ELSE b

(***************************************************************************)
(* Machine words.                                                          *)
(***************************************************************************)
\* the value of an expression, taken once: the element of a one-element set
The(S) == CHOOSE v \in S : TRUE

RECURSIVE XorBits(_, _)
XorBits(a, b) ==
    IF a = b THEN 0
    ELSE IF a = 0 THEN b
    ELSE IF b = 0 THEN a
    ELSE (((a % 2) + (b % 2)) % 2) + (2 * XorBits(a \div 2, b \div 2))

\* a ^ b
BitXor(a, b) == The({XorBits(x, y) : x \in {a}, y \in {b}})

RECURSIVE OrBits(_, _)
OrBits(a, b) ==
    IF a = b THEN a
    ELSE IF a = 0 THEN b
    ELSE IF b = 0 THEN a
    ELSE (IF (a % 2) + (b % 2) > 0 THEN 1 ELSE 0) + (2 * OrBits(a \div 2, b \div 2))

\* a | b
BitOr(a, b) == The({OrBits(x, y) : x \in {a}, y \in {b}})

RECURSIVE BitLen(_)
BitLen(x) == IF x = 0 THEN 0 ELSE 1 + BitLen(x \div 2)

\* u64::leading_zeros
LeadingZeros(x) == WORD_BITS - BitLen(x)

\* x << n on a word (n < WORD_BITS): the n high bits fall off
Shl(x, n) == (x % Pow2(WORD_BITS - n)) * Pow2(n)

\* x >> n
Shr(x, n) == x \div Pow2(n)

\* (x as u8)
AsU8(x) == x % ByteMod

\* Ordering of two integers (Ord::cmp)
IntCmp(a, b) == IF a < b THEN "Less" ELSE IF a > b THEN "Greater" ELSE "Equal"

(***************************************************************************)
(* Byte slices.                                                            *)
(***************************************************************************)
\* key[from..] of a slice, from <= len
SliceFrom(key, from) == SubSeq(key, from + 1, Len(key))

\* <[u8] as Ord>::cmp : byte-wise, then by length
RECURSIVE SliceCmp(_, _)
SliceCmp(a, b) ==
    IF a = <<>> \/ b = <<>> THEN IntCmp(Len(a), Len(b))
    ELSE IF Head(a) # Head(b) THEN IntCmp(Head(a), Head(b))
    ELSE SliceCmp(Tail(a), Tail(b))

(***************************************************************************)
(* KeyAccessor::get_u64_prefix (default body), on a key.                   *)
(***************************************************************************)
\* the byte of memory at position p of the slice; a position outside the
\* slice is not the slice's memory: OutOfSlice, a value no byte has
OutOfSlice == ByteMod
MemByte(key, p) == IF p < Len(key) THEN key[p + 1] ELSE OutOfSlice

\* ptr::read_unaligned(ptr as *const u64) at key + offset: eight bytes of
\* memory in the target's byte order
RECURSIVE ReadNative(_, _, _, _)
ReadNative(le, key, offset, n) ==
    IF n = 0 THEN 0
    ELSE IF le
         THEN MemByte(key, offset) + (ByteMod * ReadNative(le, key, offset + 1, n - 1))
         ELSE (MemByte(key, offset) * Pow2(BYTE_BITS * (n - 1)))
                + ReadNative(le, key, offset + 1, n - 1)

\* u64::swap_bytes
RECURSIVE SwapBytes(_, _)
SwapBytes(x, n) ==
    IF n = 0 THEN 0
    ELSE ((x % ByteMod) * Pow2(BYTE_BITS * (n - 1))) + SwapBytes(x \div ByteMod, n - 1)

\* from_be left out: the word as read
FromBe_Raw(le, raw) == raw

\* u64::from_be
FromBe(le, raw) == IF le THEN SwapBytes(raw, SPLICE_PREFIX_SIZE) ELSE raw

\* the bytes copied to the end of the buffer instead of its start
PaddedBuf_RightAligned(key, offset, remaining) ==
    [i \in 1..SPLICE_PREFIX_SIZE |->
        IF i > SPLICE_PREFIX_SIZE - remaining
        THEN key[offset + i - (SPLICE_PREFIX_SIZE - remaining)] ELSE 0]

\* buf[..remaining].copy_from_slice(&key[offset..]) into [0u8; 8]
PaddedBuf(key, offset, remaining) ==
    [i \in 1..SPLICE_PREFIX_SIZE |-> IF i <= remaining THEN key[offset + i] ELSE 0]

\* u64::from_be_bytes
RECURSIVE FromBeBytes(_)
FromBeBytes(buf) ==
    IF buf = <<>> THEN 0
    ELSE (Head(buf) * Pow2(BYTE_BITS * (Len(buf) - 1))) + FromBeBytes(Tail(buf))

\* one call of the default body on a key: the value returned and the
\* positions of the key it read
get_u64_prefix_on(le, key, offset) ==
    IF offset >= Len(key) THEN [value |-> 0, reads |-> {}]
    ELSE LET remaining == Len(key) - offset
         IN IF remaining >= SPLICE_PREFIX_SIZE
            THEN [value |-> FromBe(le, ReadNative(le, key, offset, SPLICE_PREFIX_SIZE)),
                  reads |-> offset..(offset + SPLICE_PREFIX_SIZE - 1)]
            ELSE [value |-> FromBeBytes(PaddedBuf(key, offset, remaining)),
                  reads |-> offset..(offset + remaining - 1)]

\* the byte order of the build target (x86-64, aarch64: little-endian)
TargetLittleEndian == TRUE

get_u64_prefix(key, offset) == get_u64_prefix_on(TargetLittleEndian, key, offset).value


(***************************************************************************)
(* State.                                                                  *)
(***************************************************************************)
VARIABLES
    api,          \* the entry point called
    provider,     \* the KeyAccessor: row index i (from 0) has key provider[i + 1]
    offset,       \* the offset argument of the entry points that take one
    pc,           \* "start", "sorting", "permute", "done"
    ptrs,         \* the Vec<SortPtr> of the call
    stack,        \* the frames of cps_quicksort / aqs_radix, innermost first
    driverCalls,  \* invocations of cps_quicksort so far
    result,       \* the value returned
    data,         \* the slice orasort_mut / apply_permutation rearranges
    indices,      \* the index vector (argument of apply_permutation, of
                  \* orasort_from_indices and of orasort_slice)
    i,            \* apply_permutation: the outer loop variable
    current,      \* apply_permutation: the inner loop variable
    swaps         \* apply_permutation: calls of data.swap so far

vars == <<api, provider, offset, pc, ptrs, stack, driverCalls, result,
          data, indices, i, current, swaps>>

engineVars == <<ptrs, stack, driverCalls>>
permVars == <<data, indices, i, current, swaps>>

\* provider.get_key(index)
get_key(prov, index) == prov[index + 1]

\* core.rs SortPtr
SortPtr(index, cache) == [index |-> index, cache |-> cache]

(***************************************************************************)
(* compare_entries                                                         *)
(***************************************************************************)
\* the length tie-break left out
ThenByLen_Dropped(ord, key_a, key_p) == ord

\* match x.cmp(y) { Equal => key_a.len().cmp(&key_p.len()), other => other }
ThenByLen(ord, key_a, key_p) ==
    IF ord = "Equal" THEN IntCmp(Len(key_a), Len(key_p)) ELSE ord

\* the comparator that stops at the caches
compare_entries_CacheOnly(prov, a, pivot, off) == IntCmp(a.cache, pivot.cache)

compare_entries(prov, a, pivot, off) ==
    IF a.cache # pivot.cache THEN IntCmp(a.cache, pivot.cache)
    ELSE LET key_a == get_key(prov, a.index)
             key_p == get_key(prov, pivot.index)
             start_safe == off + SPLICE_PREFIX_SIZE
         IN IF Len(key_a) < start_safe \/ Len(key_p) < start_safe
            THEN LET slice_a == IF off < Len(key_a) THEN SliceFrom(key_a, off) ELSE <<>>
                     slice_p == IF off < Len(key_p) THEN SliceFrom(key_p, off) ELSE <<>>
                 IN ThenByLen(SliceCmp(slice_a, slice_p), key_a, key_p)
            ELSE ThenByLen(SliceCmp(SliceFrom(key_a, start_safe),
                                    SliceFrom(key_p, start_safe)), key_a, key_p)

(***************************************************************************)
(* slice.sort_unstable_by: some rearrangement of the slice in which no     *)
(* later element is Less than an earlier one.                              *)
(***************************************************************************)
MaxRegion == IF MaxRows > MaxIndices THEN MaxRows ELSE MaxIndices

Bijections == [n \in 0..MaxRegion |->
                 {f \in [1..n -> 1..n] : \A a, b \in 1..n : a # b => f[a] # f[b]}]

Rearrangements(seq) == {[k \in 1..Len(seq) |-> seq[f[k]]] : f \in Bijections[Len(seq)]}

\* the elements of a slice
Elements(seq) == {seq[k] : k \in 1..Len(seq)}

\* the slice is ordered by the strict order less, the set of the pairs
\* <<x, y>> for which the closure answers Ordering::Less
Ordered(seq, less) ==
    \A j, k \in 1..Len(seq) : j < k => <<seq[k], seq[j]>> \notin less

sort_unstable_by(seq, less) == {t \in Rearrangements(seq) : Ordered(t, less)}

\* the sequence with positions lo+1..hi (the slice [lo..hi)) replaced
Splice(seq, lo, hi, part) ==
    [k \in 1..Len(seq) |-> IF k > lo /\ k <= hi THEN part[k - lo] ELSE seq[k]]

\* &ptrs[lo..hi]
Region(P, lo, hi) == SubSeq(P, lo + 1, hi)

(***************************************************************************)
(* update_caches                                                           *)
(***************************************************************************)
\* the reload left out
update_caches_NoReload(prov, region, new_cp) == region

update_caches(prov, region, new_cp) ==
    [k \in 1..Len(region) |->
        SortPtr(region[k].index, get_u64_prefix(get_key(prov, region[k].index), new_cp))]

(***************************************************************************)
(* aqs_radix: block skip                                                   *)
(***************************************************************************)
\* ptrs.iter().fold(0, |acc, p| acc | (p.cache ^ anchor))
RECURSIVE FoldDiff(_, _, _)
FoldDiff(region, anchor, acc) ==
    IF region = <<>> THEN acc
    ELSE FoldDiff(Tail(region), anchor, BitOr(acc, BitXor(Head(region).cache, anchor)))

\* the common bits rounded up to whole bytes
common_bytes_RoundUp(region) ==
    LET anchor == region[1].cache
        diff == FoldDiff(region, anchor, 0)
        common_bits == LeadingZeros(diff)
    IN (common_bits + BYTE_BITS - 1) \div BYTE_BITS

common_bytes(region) ==
    LET anchor == region[1].cache
        diff == FoldDiff(region, anchor, 0)
        common_bits == LeadingZeros(diff)
    IN common_bits \div BYTE_BITS

\* the loop without its break at a zero byte
RECURSIVE SafeLoop_NoBreak(_, _, _)
SafeLoop_NoBreak(anchor, k, common) ==
    IF k >= common THEN 0 ELSE 1 + SafeLoop_NoBreak(anchor, k + 1, common)

\* for i in 0..common_bytes { if byte == 0 { break } safe_bytes += 1 }
RECURSIVE SafeLoop(_, _, _)
SafeLoop(anchor, k, common) ==
    IF k >= common THEN 0
    ELSE LET shift == ((SPLICE_PREFIX_SIZE - 1) * BYTE_BITS) - (k * BYTE_BITS)
             byte == AsU8(Shr(anchor, shift))
         IN IF byte = 0 THEN 0 ELSE 1 + SafeLoop(anchor, k + 1, common)

safe_bytes(region) ==
    LET common == common_bytes(region)
    IN IF common > 0 THEN SafeLoop(region[1].cache, 0, common) ELSE 0

\* the caches shifted by one byte, whatever was skipped
shift_caches_OneByte(region, shift_bits) ==
    [k \in 1..Len(region) |-> SortPtr(region[k].index, Shl(region[k].cache, BYTE_BITS))]

\* ptrs.iter_mut().for_each(|p| p.cache <<= shift_bits)
shift_caches(region, shift_bits) ==
    [k \in 1..Len(region) |-> SortPtr(region[k].index, Shl(region[k].cache, shift_bits))]

(***************************************************************************)
(* aqs_radix: histogram pass                                               *)
(***************************************************************************)
\* the digit taken from the low end of the cache
TopByte_Low(p) == AsU8(p.cache)

\* (p.cache >> 56) as u8
TopByte(p) == AsU8(Shr(p.cache, (SPLICE_PREFIX_SIZE - 1) * BYTE_BITS))

Buckets == 0..(RADIX_BUCKETS - 1)

\* let b = (p.cache >> 56) as u8; counts[b as usize] += 1
count_one(counts, p) == [counts EXCEPT ![TopByte(p)] = @ + 1]

RECURSIVE CountLoop(_, _)
CountLoop(region, counts) ==
    IF region = <<>> THEN counts
    ELSE CountLoop(Tail(region), count_one(counts, Head(region)))

histogram(region) == CountLoop(region, [b \in Buckets |-> 0])

RECURSIVE SumBelow(_, _)
SumBelow(counts, b) == IF b = 0 THEN 0 ELSE counts[b - 1] + SumBelow(counts, b - 1)

\* the running sum taken after the count is added
prefix_sums_Inclusive(counts) == [b \in Buckets |-> SumBelow(counts, b + 1)]

\* offsets[b] = sum of counts[0..b)
prefix_sums(counts) == [b \in Buckets |-> SumBelow(counts, b)]

\* cur_offsets[b] is not advanced: a bucket's pointers land on one slot
RECURSIVE ScatterLoop_NoAdvance(_, _, _)
ScatterLoop_NoAdvance(region, aux, cur_offsets) ==
    IF region = <<>> THEN aux
    ELSE LET p == Head(region)
             pos == cur_offsets[AsU8(Shr(p.cache, (SPLICE_PREFIX_SIZE - 1) * BYTE_BITS))]
         IN ScatterLoop_NoAdvance(Tail(region), [aux EXCEPT ![pos + 1] = p], cur_offsets)

\* for p in ptrs.iter() { aux_slice[cur_offsets[b]] = *p; cur_offsets[b] += 1 }
\* one iteration: the slot written, the scratch buffer and the offsets after it
scatter_one(aux, cur_offsets, p) ==
    LET b == TopByte(p)
        pos == cur_offsets[b]
    IN [pos |-> pos,
        aux |-> [aux EXCEPT ![pos + 1] = p],
        cur_offsets |-> [cur_offsets EXCEPT ![b] = @ + 1]]

RECURSIVE ScatterLoop(_, _, _)
ScatterLoop(region, aux, cur_offsets) ==
    IF region = <<>> THEN aux
    ELSE LET one == scatter_one(aux, cur_offsets, Head(region))
         IN ScatterLoop(Tail(region), one.aux, one.cur_offsets)

\* vec![SortPtr { index: 0, cache: 0 }; ptrs.len()]
new_aux(n) == [k \in 1..n |-> SortPtr(0, 0)]

\* steps 1-3 of the pass: the region after ptrs.copy_from_slice(aux_slice)
scatter(region) ==
    ScatterLoop(region, new_aux(Len(region)), prefix_sums(histogram(region)))

(***************************************************************************)
(* Frames.                                                                 *)
(***************************************************************************)
NoCounts == [b \in Buckets |-> 0]

CallFrame(lo, hi, cp_len, allow_radix) ==
    [fn |-> "cps_quicksort", at |-> "call", lo |-> lo, hi |-> hi, cp_len |-> cp_len,
     allow_radix |-> allow_radix, bytes_since_load |-> 0,
     counts |-> NoCounts, start |-> 0, b |-> 0]

Top == stack[1]
Push(f, stk) == <<f>> \o stk

(***************************************************************************)
(* Inputs of the model: every row's key is a shared prefix of p bytes 0x01 *)
(* (p = 0, one less than the cache, the cache) followed by a tail.          *)
(***************************************************************************)
Tails == {<<>>, <<0>>, <<1>>, <<0, 0>>, <<0, 1>>, <<1, 0>>, <<1, 1>>}

\* the tails of the keys of the offset entry points
SliceTails == {<<>>, <<0>>, <<1>>, <<0, 0>>}

MaxTailLen == CHOOSE m \in 0..SPLICE_PREFIX_SIZE :
                /\ \A t \in Tails : Len(t) <= m
                /\ \E t \in Tails : Len(t) = m

PrefixLens == {0, SPLICE_PREFIX_SIZE - 1, SPLICE_PREFIX_SIZE}

KeysWith(p, tails) == {[k \in 1..p |-> 1] \o t : t \in tails}

\* a cp_len no region of these inputs reaches: the cap of the counter
MaxCpLen == SPLICE_PREFIX_SIZE + MaxTailLen + MaxRows + MaxIndices + 2

Idle ==
    /\ ptrs = <<>> /\ stack = <<>> /\ driverCalls = 0 /\ result = <<>>
    /\ data = <<>> /\ indices = <<>> /\ i = 0 /\ current = 0 /\ swaps = 0

Init ==
    /\ api = "orasort"
    /\ \E n \in 0..MaxRows, p \in PrefixLens : provider \in [1..n -> KeysWith(p, Tails)]
    /\ offset = 0
    /\ pc = "start"
    /\ Idle

(***************************************************************************)
(* orasort, lines 43-57: the empty input returns at once, any other builds *)
(* the pointers and calls the driver on all of them.                       *)
(***************************************************************************)
\* the caches loaded at the start of the keys, whatever the offset
load_pointers_AtZero(prov, idx, off) ==
    [k \in 1..Len(idx) |-> SortPtr(idx[k], get_u64_prefix(get_key(prov, idx[k]), 0))]

load_pointers(prov, idx, off) ==
    [k \in 1..Len(idx) |-> SortPtr(idx[k], get_u64_prefix(get_key(prov, idx[k]), off))]

\* (0..len)
RowRange(len) == [k \in 1..len |-> k - 1]

\* pointers.into_iter().map(|p| p.index).collect()
collect_indices(P) == [k \in 1..Len(P) |-> P[k].index]

Orasort ==
    /\ pc = "start" /\ api = "orasort"
    /\ LET len == Len(provider)
       IN IF len = 0
          THEN /\ result' = <<>>
               /\ pc' = "done"
               /\ UNCHANGED <<ptrs, stack>>
          ELSE /\ ptrs' = load_pointers(provider, RowRange(len), 0)
               /\ stack' = <<CallFrame(0, len, 0, TRUE)>>
               /\ pc' = "sorting"
               /\ UNCHANGED result
    /\ UNCHANGED <<api, provider, offset, driverCalls, permVars>>

\* orasort, line 59
OrasortReturn ==
    /\ pc = "sorting" /\ api = "orasort" /\ stack = <<>>
    /\ result' = collect_indices(ptrs)
    /\ pc' = "done"
    /\ UNCHANGED <<api, provider, offset, engineVars, permVars>>

(***************************************************************************)
(* cps_quicksort                                                           *)
(***************************************************************************)
\* the length test left out
use_radix_AnyLength(len, allow_radix) == allow_radix

\* the threshold itself sent to the radix step
use_radix_Inclusive(len, allow_radix) == allow_radix /\ len >= RADIX_SORT_THRESHOLD

\* if allow_radix && len > RADIX_SORT_THRESHOLD
use_radix(len, allow_radix) == allow_radix /\ len > RADIX_SORT_THRESHOLD

InDriver == pc = "sorting" /\ stack # <<>> /\ Top.fn = "cps_quicksort"

\* the driver hands the region to aqs_radix
CpsQuicksortRadix ==
    /\ InDriver
    /\ use_radix(Top.hi - Top.lo, Top.allow_radix)
    /\ Top.cp_len < MaxCpLen
    /\ stack' = Push([Top EXCEPT !.fn = "aqs_radix", !.at = "loop",
                                 !.bytes_since_load = 0], Tail(stack))
    /\ driverCalls' = driverCalls + 1
    /\ UNCHANGED <<api, provider, offset, pc, ptrs, result, permVars>>

\* the driver sorts the region with the comparator at the region's cp_len
CpsQuicksortSort ==
    /\ InDriver
    /\ ~use_radix(Top.hi - Top.lo, Top.allow_radix)
    /\ LET region == Region(ptrs, Top.lo, Top.hi)
           less == {e \in Elements(region) \X Elements(region) :
                        compare_entries(provider, e[1], e[2], Top.cp_len) = "Less"}
       IN \E t \in sort_unstable_by(region, less) :
            ptrs' = Splice(ptrs, Top.lo, Top.hi, t)
    /\ stack' = Tail(stack)
    /\ driverCalls' = driverCalls + 1
    /\ UNCHANGED <<api, provider, offset, pc, result, permVars>>

(***************************************************************************)
(* aqs_radix                                                               *)
(***************************************************************************)
InRadix(at) == pc = "sorting" /\ stack # <<>> /\ Top.fn = "aqs_radix" /\ Top.at = at

\* one iteration of the loop that ends in `continue`
AqsBlockSkip ==
    /\ InRadix("loop")
    /\ \E safe \in {safe_bytes(Region(ptrs, Top.lo, Top.hi))} :
         LET region == Region(ptrs, Top.lo, Top.hi)
             cp_len == Top.cp_len + safe
             since == Top.bytes_since_load + safe
         IN /\ safe > 0
            /\ cp_len <= MaxCpLen
            /\ IF since >= SPLICE_PREFIX_SIZE
               THEN /\ ptrs' = Splice(ptrs, Top.lo, Top.hi,
                                      update_caches(provider, region, cp_len))
                    /\ stack' = Push([Top EXCEPT !.cp_len = cp_len,
                                                 !.bytes_since_load = 0], Tail(stack))
               ELSE /\ ptrs' = Splice(ptrs, Top.lo, Top.hi,
                                      shift_caches(region, safe * BYTE_BITS))
                    /\ stack' = Push([Top EXCEPT !.cp_len = cp_len,
                                                 !.bytes_since_load = since], Tail(stack))
    /\ UNCHANGED <<api, provider, offset, pc, driverCalls, result, permVars>>

\* the iteration that falls through: count, prefix sums, scatter, copy back
AqsHistogram ==
    /\ InRadix("loop")
    /\ LET region == Region(ptrs, Top.lo, Top.hi)
       IN /\ safe_bytes(region) = 0
          /\ ptrs' = Splice(ptrs, Top.lo, Top.hi, scatter(region))
          /\ stack' = Push([Top EXCEPT !.at = "buckets", !.counts = histogram(region),
                                       !.start = 0, !.b = 0], Tail(stack))
    /\ UNCHANGED <<api, provider, offset, pc, driverCalls, result, permVars>>

\* the veto left out
is_degenerate_Never(start, end, total_len) == FALSE

\* the bucket's start left out of the test
is_degenerate_FromZero(start, end, total_len) == end = total_len

\* let is_degenerate = (end - start) == total_len
is_degenerate(start, end, total_len) == (end - start) = total_len

\* the buckets from b on that are not empty
Pending(f) == {b \in Buckets : b >= f.b /\ f.counts[b] > 0}

\* counts.iter().for_each: the empty buckets up to the next one that is not,
\* and that one: its caches are reloaded and the driver is called on it
AqsBucket ==
    /\ InRadix("buckets")
    /\ Pending(Top) # {}
    /\ LET b == CHOOSE x \in Pending(Top) : \A y \in Pending(Top) : x <= y
           start == Top.start
           end == start + Top.counts[b]
           total_len == Top.hi - Top.lo
           new_cp == Top.cp_len + 1
           lo == Top.lo + start
           hi == Top.lo + end
       IN /\ ptrs' = Splice(ptrs, lo, hi, update_caches(provider, Region(ptrs, lo, hi), new_cp))
          /\ stack' = Push(CallFrame(lo, hi, new_cp, ~is_degenerate(start, end, total_len)),
                           Push([Top EXCEPT !.start = end, !.b = b + 1], Tail(stack)))
    /\ UNCHANGED <<api, provider, offset, pc, driverCalls, result, permVars>>

\* no bucket is left: break, return
AqsReturn ==
    /\ InRadix("buckets")
    /\ Pending(Top) = {}
    /\ stack' = Tail(stack)
    /\ UNCHANGED <<api, provider, offset, pc, ptrs, driverCalls, result, permVars>>

Engine ==
    \/ CpsQuicksortRadix
    \/ CpsQuicksortSort
    \/ AqsBlockSkip
    \/ AqsHistogram
    \/ AqsBucket
    \/ AqsReturn

Next ==
    \/ Orasort
    \/ Engine
    \/ OrasortReturn

Spec == Init /\ [][Next]_vars

\* the inputs termination is checked on: every row the (possibly empty)
\* shared prefix followed by nothing, by 0x00 or by 0x01
FairTails == {<<>>, <<0>>, <<1>>}

InitFair ==
    /\ api = "orasort"
    /\ \E n \in 0..MaxRows, p \in {0, SPLICE_PREFIX_SIZE} :
         provider \in [1..n -> KeysWith(p, FairTails)]
    /\ offset = 0
    /\ pc = "start"
    /\ Idle

\* the call is not suspended: a step that can be taken is taken
FairSpec == InitFair /\ [][Next]_vars /\ WF_vars(Next)

(***************************************************************************)
(* apply_permutation, one action per loop iteration.                       *)
(***************************************************************************)
\* a copy instead of an exchange
swap_CopyOnly(seq, a, b) == [k \in 1..Len(seq) |-> IF k = a + 1 THEN seq[b + 1] ELSE seq[k]]

\* data.swap(a, b), positions from 0
swap(seq, a, b) ==
    [k \in 1..Len(seq) |-> IF k = a + 1 THEN seq[b + 1]
                           ELSE IF k = b + 1 THEN seq[a + 1] ELSE seq[k]]

\* the marker left out
mark_placed_Skipped(idx, cur) == idx

\* indices[current] = current
mark_placed(idx, cur) == [idx EXCEPT ![cur + 1] = cur]

InPermute == pc = "permute" /\ i < Len(data)

\* the body of `while indices[current] != i`
ApplySwap ==
    /\ InPermute
    /\ indices[current + 1] # i
    /\ LET next == indices[current + 1]
       IN /\ data' = swap(data, current, next)
          /\ indices' = mark_placed(indices, current)
          /\ current' = next
    /\ swaps' = swaps + 1
    /\ UNCHANGED <<api, provider, offset, pc, engineVars, result, i>>

\* the marker after the while loop (line 129) left out
ApplyPlaced_NoMark ==
    /\ InPermute
    /\ indices[current + 1] = i
    /\ i' = i + 1
    /\ current' = i + 1
    /\ UNCHANGED <<api, provider, offset, pc, engineVars, result, data, indices, swaps>>

\* the while loop exits: indices[current] = current, and the for loop steps
ApplyPlaced ==
    /\ InPermute
    /\ indices[current + 1] = i
    /\ indices' = mark_placed(indices, current)
    /\ i' = i + 1
    /\ current' = i + 1
    /\ UNCHANGED <<api, provider, offset, pc, engineVars, result, data, swaps>>

\* `for i in 0..data.len()` is exhausted
ApplyReturn ==
    /\ pc = "permute"
    /\ i >= Len(data)
    /\ pc' = "done"
    /\ UNCHANGED <<api, provider, offset, engineVars, result, permVars>>

ApplyPermutation == ApplySwap \/ ApplyPlaced \/ ApplyReturn

(***************************************************************************)
(* orasort_mut: orasort(data), then apply_permutation(data, indices).      *)
(***************************************************************************)
InitMut ==
    /\ api = "orasort_mut"
    /\ \E n \in 0..MaxMutRows, p \in PrefixLens : provider \in [1..n -> KeysWith(p, Tails)]
    /\ offset = 0
    /\ pc = "start"
    /\ ptrs = <<>> /\ stack = <<>> /\ driverCalls = 0 /\ result = <<>>
    /\ data = provider
    /\ indices = <<>> /\ i = 0 /\ current = 0 /\ swaps = 0

\* orasort_mut, line 112, into orasort
OrasortMut ==
    /\ pc = "start" /\ api = "orasort_mut"
    /\ LET len == Len(data)
       IN IF len = 0
          THEN /\ result' = <<>>
               /\ indices' = <<>>
               /\ pc' = "permute"
               /\ UNCHANGED <<ptrs, stack>>
          ELSE /\ ptrs' = load_pointers(data, RowRange(len), 0)
               /\ stack' = <<CallFrame(0, len, 0, TRUE)>>
               /\ pc' = "sorting"
               /\ UNCHANGED <<result, indices>>
    /\ UNCHANGED <<api, provider, offset, driverCalls, data, i, current, swaps>>

\* orasort returns the indices (line 59) and orasort_mut passes them on (line 117)
OrasortMutApply ==
    /\ pc = "sorting" /\ api = "orasort_mut" /\ stack = <<>>
    /\ result' = collect_indices(ptrs)
    /\ indices' = collect_indices(ptrs)
    /\ pc' = "permute"
    /\ UNCHANGED <<api, provider, offset, engineVars, data, i, current, swaps>>

NextMut ==
    \/ OrasortMut
    \/ Engine
    \/ OrasortMutApply
    \/ ApplyPermutation

SpecMut == InitMut /\ [][NextMut]_vars

(***************************************************************************)
(* apply_permutation on its own: every permutation of every length up to   *)
(* MaxPermLen, applied to a sequence of distinct items.                    *)
(***************************************************************************)
\* the permutations of [0, n) as index vectors
PermutationsOf(n) ==
    {pi \in [1..n -> 0..(n - 1)] : \A a, b \in 1..n : a # b => pi[a] # pi[b]}

\* the item at position k (from 0) of the sequence the check permutes
Item(k) == <<k>>

InitPerm ==
    /\ api = "apply_permutation"
    /\ \E n \in 0..MaxPermLen :
         /\ data = [k \in 1..n |-> Item(k - 1)]
         /\ indices \in PermutationsOf(n)
    /\ provider = data
    /\ result = indices
    /\ offset = 0
    /\ pc = "permute"
    /\ ptrs = <<>> /\ stack = <<>> /\ driverCalls = 0
    /\ i = 0 /\ current = 0 /\ swaps = 0

NextPerm == ApplyPermutation

SpecPerm == InitPerm /\ [][NextPerm]_vars

(***************************************************************************)
(* orasort_from_indices and orasort_slice.                                 *)
(***************************************************************************)
\* the closure of orasort_slice's sort_unstable_by (lines 146-159)
direct_cmp(prov, a, b, off) ==
    LET ka == get_key(prov, a)
        kb == get_key(prov, b)
        start == Min(Min(off, Len(ka)), Len(kb))
    IN SliceCmp(SliceFrom(ka, start), SliceFrom(kb, start))

\* the caller's guarantee: every key referenced has `off` bytes and all of
\* them agree on these
SharedPrefix(prov, idx, off) ==
    \A a, b \in 1..Len(idx) :
        /\ Len(get_key(prov, idx[a])) >= off
        /\ SubSeq(get_key(prov, idx[a]), 1, off) = SubSeq(get_key(prov, idx[b]), 1, off)

IndexLists(n) == UNION {[1..m -> 0..(n - 1)] : m \in 0..MaxIndices}

InitSlice ==
    /\ api \in {"orasort_from_indices", "orasort_slice"}
    /\ \E n \in 1..MaxSliceRows, p \in PrefixLens :
         provider \in [1..n -> KeysWith(p, SliceTails)]
    /\ indices \in IndexLists(Len(provider))
    /\ offset \in 0..(SPLICE_PREFIX_SIZE + MaxTailLen)
    /\ SharedPrefix(provider, indices, offset)
    /\ data = indices
    /\ pc = "start"
    /\ ptrs = <<>> /\ stack = <<>> /\ driverCalls = 0 /\ result = <<>>
    /\ i = 0 /\ current = 0 /\ swaps = 0

\* orasort_from_indices, lines 71-86
OrasortFromIndices ==
    /\ pc = "start" /\ api = "orasort_from_indices"
    /\ LET len == Len(indices)
       IN IF len = 0
          THEN /\ result' = <<>>
               /\ pc' = "done"
               /\ UNCHANGED <<ptrs, stack>>
          ELSE /\ ptrs' = load_pointers(provider, indices, offset)
               /\ stack' = <<CallFrame(0, len, offset, TRUE)>>
               /\ pc' = "sorting"
               /\ UNCHANGED result
    /\ UNCHANGED <<api, provider, offset, driverCalls, permVars>>

\* orasort_from_indices, line 88
OrasortFromIndicesReturn ==
    /\ pc = "sorting" /\ api = "orasort_from_indices" /\ stack = <<>>
    /\ result' = collect_indices(ptrs)
    /\ pc' = "done"
    /\ UNCHANGED <<api, provider, offset, engineVars, permVars>>

\* orasort_slice, lines 137-171: nothing for no indices, the direct sort for
\* at most NO_ALLOC_THRESHOLD of them, the pointers and the driver otherwise
OrasortSlice ==
    /\ pc = "start" /\ api = "orasort_slice"
    /\ LET len == Len(indices)
           less == {e \in Elements(indices) \X Elements(indices) :
                        direct_cmp(provider, e[1], e[2], offset) = "Less"}
       IN IF len = 0
          THEN /\ pc' = "done"
               /\ result' = indices
               /\ UNCHANGED <<ptrs, stack, indices>>
          ELSE IF len <= NO_ALLOC_THRESHOLD
          THEN /\ \E t \in sort_unstable_by(indices, less) :
                    /\ indices' = t
                    /\ result' = t
               /\ pc' = "done"
               /\ UNCHANGED <<ptrs, stack>>
          ELSE /\ ptrs' = load_pointers(provider, indices, offset)
               /\ stack' = <<CallFrame(0, len, offset, TRUE)>>
               /\ pc' = "sorting"
               /\ UNCHANGED <<result, indices>>
    /\ UNCHANGED <<api, provider, offset, driverCalls, data, i, current, swaps>>

\* orasort_slice, lines 174-176: the indices are written back
OrasortSliceReturn ==
    /\ pc = "sorting" /\ api = "orasort_slice" /\ stack = <<>>
    /\ indices' = collect_indices(ptrs)
    /\ result' = collect_indices(ptrs)
    /\ pc' = "done"
    /\ UNCHANGED <<api, provider, offset, engineVars, data, i, current, swaps>>

NextSlice ==
    \/ OrasortFromIndices
    \/ OrasortFromIndicesReturn
    \/ OrasortSlice
    \/ OrasortSliceReturn
    \/ Engine

SpecSlice == InitSlice /\ [][NextSlice]_vars

(***************************************************************************)
(* KeyAccessor::get_u64_prefix on its own: every key of at most            *)
(* MaxPrefixKeyLen bytes 0x00 / 0xFF, every offset up to one past the      *)
(* longest key, on a little-endian and on a big-endian target.             *)
(***************************************************************************)
PrefixKeys == UNION {[1..m -> {0, ByteMod - 1}] : m \in 0..MaxPrefixKeyLen}

InitPrefix ==
    /\ api \in {"get_u64_prefix (little-endian)", "get_u64_prefix (big-endian)"}
    /\ \E key \in PrefixKeys : provider = <<key>>
    /\ offset \in 0..(MaxPrefixKeyLen + 1)
    /\ pc = "start"
    /\ Idle

GetU64Prefix ==
    /\ pc = "start"
    /\ result' = get_u64_prefix_on(api = "get_u64_prefix (little-endian)",
                                   get_key(provider, 0), offset)
    /\ pc' = "done"
    /\ UNCHANGED <<api, provider, offset, engineVars, permVars>>

NextPrefix == GetU64Prefix

SpecPrefix == InitPrefix /\ [][NextPrefix]_vars

(***************************************************************************)
(* The order of the specification: unsigned byte-wise lexicographic, a     *)
(* strict prefix before its extensions.                                    *)
(***************************************************************************)
IsPrefix(a, b) == Len(a) <= Len(b) /\ \A k \in 1..Len(a) : a[k] = b[k]

StrictPrefix(a, b) == IsPrefix(a, b) /\ Len(a) < Len(b)

LexLeq(a, b) ==
    \/ IsPrefix(a, b)
    \/ \E k \in 1..Min(Len(a), Len(b)) :
          /\ \A j \in 1..(k - 1) : a[j] = b[j]
          /\ a[k] < b[k]

\* the keys of A at the rows pi names, in pi's order
Materialize(A, pi) == [k \in 1..Len(pi) |-> A[pi[k] + 1]]

NonDecreasing(keys) == \A k \in 1..(Len(keys) - 1) : LexLeq(keys[k], keys[k + 1])

Occurrences(seq, x) == Cardinality({k \in 1..Len(seq) : seq[k] = x})

SameElements(s, t) ==
    /\ Len(s) = Len(t)
    /\ \A k \in 1..Len(s) : Occurrences(s, s[k]) = Occurrences(t, s[k])

\* out is the reference sort of A: A's keys, each as often as in A, in order
IsReferenceSort(out, A) == SameElements(out, A) /\ NonDecreasing(out)

\* pi holds each index of [0, n) exactly once
IsPermutation(pi, n) ==
    /\ Len(pi) = n
    /\ \A r \in 0..(n - 1) : Occurrences(pi, r) = 1

Identity(n) == [k \in 1..n |-> k - 1]

Returned == pc = "done"

(***************************************************************************)
(* C1: when orasort returns, the keys of the input taken at the returned   *)
(* indices are the reference lexicographic sort of the input: the same     *)
(* keys, every adjacent pair in order (a strict prefix first).             *)
(***************************************************************************)
C1_SortedOutput ==
    Returned => IsReferenceSort(Materialize(provider, result), provider)

\* an input larger than the radix threshold, out of order, with an empty key
\* and a key holding a zero byte, sorted through the radix step
C1_Witness ==
    /\ Returned
    /\ Len(provider) > RADIX_SORT_THRESHOLD
    /\ driverCalls > 1
    /\ ~NonDecreasing(provider)
    /\ \E k \in 1..Len(provider) : provider[k] = <<>>
    /\ \E k \in 1..Len(provider) : \E j \in 1..Len(provider[k]) : provider[k][j] = 0
    /\ IsReferenceSort(Materialize(provider, result), provider)

(***************************************************************************)
(* C2: at every step of the sort the pointers hold each row index of       *)
(* [0, N) exactly once, and the vector returned has length N and holds     *)
(* each index exactly once; for N = 0 it is empty.                         *)
(***************************************************************************)
C2_Permutation ==
    /\ pc = "sorting" => IsPermutation(collect_indices(ptrs), Len(provider))
    /\ Returned => IsPermutation(result, Len(provider))
    /\ Returned /\ Len(provider) = 0 => result = <<>>

\* returned after a histogram pass moved row 0 away from the front and left
\* another row there
C2_Witness ==
    /\ Returned
    /\ driverCalls > 1
    /\ Len(provider) > RADIX_SORT_THRESHOLD
    /\ result[1] # 0
    /\ IsPermutation(result, Len(provider))

(***************************************************************************)
(* C4: in the output a row whose key is a strict prefix of another row's   *)
(* key comes before that row.                                              *)
(***************************************************************************)
C4_PrefixFirst ==
    Returned =>
        \A p, q \in 1..Len(result) :
            StrictPrefix(get_key(provider, result[p]), get_key(provider, result[q]))
                => p < q

\* the key made of zero bytes only
Zeros(n) == [k \in 1..n |-> 0]

\* through the radix step: the empty key, given after two of its extensions
\* by 0x00 bytes, all three in the zero bucket, come out shortest first
C4_Witness ==
    /\ Returned
    /\ driverCalls > 1
    /\ \E a, b, c \in 1..Len(provider) :
          /\ a < b /\ b < c
          /\ provider[a] = Zeros(2) /\ provider[b] = Zeros(1) /\ provider[c] = <<>>
          /\ \E p, q, r \in 1..Len(result) :
                /\ p < q /\ q < r
                /\ result[p] = c - 1 /\ result[q] = b - 1 /\ result[r] = a - 1

\* a frame and the frame that called it
Nested(child, parent) ==
    /\ parent.fn = "aqs_radix" /\ parent.at = "buckets"
    /\ parent.lo <= child.lo /\ child.hi <= parent.hi
    /\ child.cp_len > parent.cp_len
    /\ (child.hi - child.lo) = (parent.hi - parent.lo) => ~child.allow_radix
    /\ child.allow_radix => (child.hi - child.lo) < (parent.hi - parent.lo)

\* every bucket on the stack was dispatched under the veto
VetoKept == \A k \in 1..(Len(stack) - 1) : Nested(stack[k], stack[k + 1])

\* a block-skip iteration: the radix step stays in its loop with a larger cp_len
BlockSkipped ==
    /\ InRadix("loop")
    /\ Len(stack') = Len(stack)
    /\ stack'[1].at = "loop"
    /\ stack'[1].cp_len > Top.cp_len

\* every key of the region on top of the stack has at least n bytes
RegionKeysHave(n) ==
    \A k \in (Top.lo + 1)..Top.hi : Len(get_key(provider, ptrs[k].index)) >= n

(***************************************************************************)
(* C5: orasort terminates on every input: the call returns; a bucket that  *)
(* holds its whole parent region is dispatched with allow_radix = false    *)
(* and a bucket dispatched with allow_radix = true is strictly smaller     *)
(* than its parent; a block-skip iteration advances cp_len only over bytes *)
(* that every key of the region has.                                       *)
(***************************************************************************)
C5_Terminates ==
    /\ <>Returned
    /\ []VetoKept
    /\ [][BlockSkipped => RegionKeysHave(stack'[1].cp_len)]_vars

\* returned from an input of empty keys and keys 0x00 whose zero bucket went
\* through the radix step a second time
C5_Witness ==
    /\ Returned
    /\ driverCalls > RADIX_SORT_THRESHOLD + 1
    /\ \E k \in 1..Len(provider) : provider[k] = <<>>
    /\ \E k \in 1..Len(provider) : provider[k] = Zeros(1)
    /\ \A k \in 1..Len(provider) : provider[k] = <<1>> => k = 1

(***************************************************************************)
(* C7: the claim as stated: for an input whose keys are in non-decreasing  *)
(* order, equal keys included, orasort returns the identity.               *)
(***************************************************************************)
C7_IdentityOnSorted ==
    Returned /\ NonDecreasing(provider) => result = Identity(Len(provider))

KeysDistinct(A) == \A j, k \in 1..Len(A) : j # k => A[j] # A[k]

(***************************************************************************)
(* C7 as amended: for an input whose keys are in non-decreasing order,     *)
(* every position of the output names a row that holds the key of that     *)
(* position (the keys taken at the output are the input itself), and the   *)
(* output is the identity when the keys are pairwise distinct.             *)
(***************************************************************************)
C7_SortedInputKept ==
    Returned /\ NonDecreasing(provider) =>
        /\ Materialize(provider, result) = provider
        /\ KeysDistinct(provider) => result = Identity(Len(provider))

\* a sorted input of distinct keys through the radix step, and a sorted input
\* with equal keys, returned
C7_Witness ==
    /\ Returned
    /\ NonDecreasing(provider)
    /\ Len(provider) > RADIX_SORT_THRESHOLD
    /\ driverCalls > 1
    /\ KeysDistinct(provider)
    /\ result = Identity(Len(provider))

(***************************************************************************)
(* C8: the claim as stated: for one row orasort returns [0] and the driver *)
(* cps_quicksort is not invoked.                                           *)
(***************************************************************************)
C8_OneRowNoDriver ==
    Returned /\ Len(provider) = 1 => result = <<0>> /\ driverCalls = 0

(***************************************************************************)
(* C8 as amended: for one row orasort returns [0]; the driver is invoked   *)
(* once, on the one-pointer region, and not the radix step.                *)
(***************************************************************************)
C8_OneRow ==
    /\ Returned /\ Len(provider) = 1 => result = <<0>> /\ driverCalls = 1
    /\ Len(provider) = 1 => \A k \in 1..Len(stack) : stack[k].fn = "cps_quicksort"

C8_Witness ==
    /\ Returned
    /\ Len(provider) = 1
    /\ result = <<0>>
    /\ driverCalls = 1

(***************************************************************************)
(* C3: after orasort_mut the slice holds, at every position, the element   *)
(* the original slice held at the index orasort returned for that          *)
(* position, and so is the reference sort of the original slice.           *)
(***************************************************************************)
C3_MutIsMaterialized ==
    Returned =>
        /\ data = Materialize(provider, result)
        /\ IsReferenceSort(data, provider)

\* a slice that was out of order, sorted through the radix step and put in
\* place with more than one swap
C3_Witness ==
    /\ Returned
    /\ Len(provider) > RADIX_SORT_THRESHOLD
    /\ ~NonDecreasing(provider)
    /\ swaps > 1
    /\ data = Materialize(provider, result)

(***************************************************************************)
(* C6: for every permutation pi of [0, N), apply_permutation leaves        *)
(* D'[i] = D[pi[i]] for every i (D and pi as passed), and the elements are *)
(* moved by swaps only: at every step the slice holds the elements of D.   *)
(***************************************************************************)
C6_Applied ==
    /\ SameElements(data, provider)
    /\ Returned => \A k \in 1..Len(provider) : data[k] = provider[result[k] + 1]

\* returned for a permutation of the longest sequence with a fixed point and
\* two disjoint 2-cycles
C6_Witness ==
    /\ Returned
    /\ Len(result) = MaxPermLen
    /\ \E k \in 1..Len(result) : result[k] = k - 1
    /\ \E j, k, m, n \in 1..Len(result) :
          /\ j # k /\ result[j] = k - 1 /\ result[k] = j - 1
          /\ m # n /\ result[m] = n - 1 /\ result[n] = m - 1
          /\ {j, k} # {m, n}
    /\ \A k \in 1..Len(provider) : data[k] = provider[result[k] + 1]

(***************************************************************************)
(* C9: when the keys referenced share their first `offset` bytes,          *)
(* orasort_from_indices and orasort_slice return the indices they were     *)
(* given, each as often as given, in non-decreasing order of the full      *)
(* keys, on the direct path of orasort_slice as on its pointer path.       *)
(***************************************************************************)
C9_OffsetSort ==
    Returned =>
        /\ SameElements(result, data)
        /\ NonDecreasing(Materialize(provider, result))
        /\ api = "orasort_slice" => indices = result

\* orasort_slice on its pointer path, at an offset inside the keys, given
\* indices that were out of order
C9_Witness ==
    /\ Returned
    /\ api = "orasort_slice"
    /\ Len(data) > NO_ALLOC_THRESHOLD
    /\ offset > 0
    /\ ~NonDecreasing(Materialize(provider, data))
    /\ NonDecreasing(Materialize(provider, result))

\* byte j (from 0, most significant first) of a word
BeByte(w, j) == (w \div Pow2(BYTE_BITS * (SPLICE_PREFIX_SIZE - 1 - j))) % ByteMod

(***************************************************************************)
(* C10: get_u64_prefix(i, offset) is the word whose big-endian bytes are   *)
(* key[offset .. offset + 8], 0x00 at every position at or beyond the      *)
(* key's length; it is 0 when offset >= L; no position >= L is read.       *)
(***************************************************************************)
C10_Prefix ==
    Returned =>
        LET key == get_key(provider, 0)
        IN /\ result.value \in 0..(WordMod - 1)
           /\ \A j \in 0..(SPLICE_PREFIX_SIZE - 1) :
                BeByte(result.value, j) =
                    IF offset + j < Len(key) THEN key[offset + j + 1] ELSE 0
           /\ offset >= Len(key) => result.value = 0
           /\ \A q \in result.reads : q < Len(key)

\* a read of eight bytes that exist, not all equal, on a little-endian target
C10_Witness ==
    /\ Returned
    /\ api = "get_u64_prefix (little-endian)"
    /\ offset > 0
    /\ Len(get_key(provider, 0)) - offset >= SPLICE_PREFIX_SIZE
    /\ BeByte(result.value, 0) # BeByte(result.value, SPLICE_PREFIX_SIZE - 1)
    /\ BeByte(result.value, 0) = get_key(provider, 0)[offset + 1]

(***************************************************************************)
(* compare_entries on two rows of a region: the keys share offset bytes,   *)
(* the caches are loaded at offset, then the comparator is called.         *)
(***************************************************************************)
\* tails that end inside the cached bytes
ShortTails ==
    {<<>>} \cup {<<x>> : x \in {0, 1, ByteMod - 1}}
           \cup {<<x, y>> : x, y \in {0, 1, ByteMod - 1}}

\* the cached bytes of the tails that go past the cache
CacheFills ==
    {[k \in 1..SPLICE_PREFIX_SIZE |-> 0],
     [k \in 1..SPLICE_PREFIX_SIZE |-> 1],
     [k \in 1..SPLICE_PREFIX_SIZE |-> IF k = 1 THEN ByteMod - 1 ELSE 0]}

\* tails that fill the cache and go on
LongTails == {w \o t : w \in CacheFills, t \in {<<>>, <<0>>, <<1>>, <<0, 0>>, <<1, 0>>}}

CompareTails == ShortTails \cup LongTails

\* the region's cp_len values compare_entries is checked at
CompareCpLens == {0, 1, SPLICE_PREFIX_SIZE}

InitCompare ==
    /\ api = "compare_entries"
    /\ \E cp \in CompareCpLens :
         /\ offset = cp
         /\ provider \in [1..2 -> KeysWith(cp, CompareTails)]
    /\ pc = "start"
    /\ Idle

\* the caches of the two rows are loaded at the region's cp_len
CompareLoad ==
    /\ pc = "start" /\ api = "compare_entries"
    /\ ptrs' = update_caches(provider, <<SortPtr(0, 0), SortPtr(1, 0)>>, offset)
    /\ pc' = "sorting"
    /\ UNCHANGED <<api, provider, offset, stack, driverCalls, result, permVars>>

CompareEntries ==
    /\ pc = "sorting" /\ api = "compare_entries"
    /\ result' = compare_entries(provider, ptrs[1], ptrs[2], offset)
    /\ pc' = "done"
    /\ UNCHANGED <<api, provider, offset, engineVars, permVars>>

NextCompare == CompareLoad \/ CompareEntries

SpecCompare == InitCompare /\ [][NextCompare]_vars

\* the lexicographic comparison of two keys, a strict prefix being Less
KeyCmp(a, b) ==
    IF a = b THEN "Equal" ELSE IF LexLeq(a, b) THEN "Less" ELSE "Greater"

(***************************************************************************)
(* C11: for two rows whose keys share cp_len bytes and whose caches are    *)
(* loaded at cp_len, compare_entries returns the lexicographic comparison  *)
(* of the full keys: when the caches differ the comparison of the caches   *)
(* is that of the keys, and Equal is returned only for identical keys.     *)
(***************************************************************************)
C11_ComparatorExact ==
    Returned =>
        /\ result = KeyCmp(provider[1], provider[2])
        /\ ptrs[1].cache # ptrs[2].cache =>
               IntCmp(ptrs[1].cache, ptrs[2].cache) = KeyCmp(provider[1], provider[2])
        /\ result = "Equal" => provider[1] = provider[2]

\* equal caches at a cp_len above 0, the first key ending inside the cached
\* bytes and the second going on with 0x00: the length decides
C11_Witness ==
    /\ Returned
    /\ offset > 0
    /\ ptrs[1].cache = ptrs[2].cache
    /\ Len(provider[1]) < offset + SPLICE_PREFIX_SIZE
    /\ Len(provider[1]) < Len(provider[2])
    /\ result = "Less"

\* the driver's step from this state hands its region to aqs_radix
RadixEntered ==
    /\ Len(stack') = Len(stack)
    /\ stack'[1].fn = "aqs_radix"
    /\ stack'[1].at = "loop"
    /\ stack'[1].lo = Top.lo /\ stack'[1].hi = Top.hi
    /\ stack'[1].cp_len = Top.cp_len
    /\ ptrs' = ptrs

\* the driver's step from this state sorts its region, and nothing else, by
\* the comparator at the region's cp_len, and returns
ComparisonSorted ==
    LET before == Region(ptrs, Top.lo, Top.hi)
        after == Region(ptrs', Top.lo, Top.hi)
    IN /\ stack' = Tail(stack)
       /\ Len(ptrs') = Len(ptrs)
       /\ \A k \in 1..Len(ptrs) : (k <= Top.lo \/ k > Top.hi) => ptrs'[k] = ptrs[k]
       /\ SameElements(after, before)
       /\ \A j, k \in 1..Len(after) :
             j < k => compare_entries(provider, after[k], after[j], Top.cp_len) # "Less"

\* every region in the radix step was handed over with allow_radix = true
\* and more than RADIX_SORT_THRESHOLD pointers
RadixOnlyWhenAllowed ==
    \A k \in 1..Len(stack) :
        stack[k].fn = "aqs_radix" =>
            stack[k].allow_radix /\ (stack[k].hi - stack[k].lo) > RADIX_SORT_THRESHOLD

HoldsRegion ==
    /\ pc = "sorting" /\ stack # <<>>
    /\ Top.fn = "cps_quicksort" \/ Top.at = "loop"

\* the big-endian eight bytes of the row's key at offset cp, zero-padded
ExactCache(p, cp) == get_u64_prefix(get_key(provider, p.index), cp)

\* a word with its low n bytes cleared
ClearLow(w, n) == (w \div Pow2(n * BYTE_BITS)) * Pow2(n * BYTE_BITS)

(***************************************************************************)
(* C13: the claim as stated: whenever the engine holds a region with a     *)
(* cp_len (driver invocation, comparator call, block-skip iteration after  *)
(* a reload or after a shift), every cache of the region is exactly the    *)
(* eight bytes of its key at offset cp_len, zero-padded.                   *)
(***************************************************************************)
C13_CacheExactAlways ==
    HoldsRegion =>
        \A k \in (Top.lo + 1)..Top.hi : ptrs[k].cache = ExactCache(ptrs[k], Top.cp_len)

(***************************************************************************)
(* C13 as amended: at every invocation of the driver, at every comparator  *)
(* call, at the first iteration of the block-skip loop and at every        *)
(* iteration after a reload, every cache of the region is exactly the      *)
(* eight bytes of its key at offset cp_len, zero-padded; at an iteration   *)
(* after a shift it is those eight bytes with the low bytes_since_load     *)
(* bytes cleared.                                                          *)
(***************************************************************************)
C13_CacheInvariant ==
    HoldsRegion =>
        \A k \in (Top.lo + 1)..Top.hi :
            ptrs[k].cache = ClearLow(ExactCache(ptrs[k], Top.cp_len), Top.bytes_since_load)

\* a block-skip iteration after a shift over a key that goes on past the
\* bytes the cache held: the cache lacks the key's later bytes
C13_Witness ==
    /\ HoldsRegion
    /\ Top.at = "loop"
    /\ Top.bytes_since_load > 0
    /\ \E k \in (Top.lo + 1)..Top.hi :
          /\ ptrs[k].cache # ExactCache(ptrs[k], Top.cp_len)
          /\ ptrs[k].cache = ClearLow(ExactCache(ptrs[k], Top.cp_len), Top.bytes_since_load)

\* the keys of the rows of a frame's region
FrameKeys(f) == {get_key(provider, ptrs[k].index) : k \in (f.lo + 1)..f.hi}

\* the first n bytes of a key, 0x00 standing for the bytes it does not have
Padded(key, n) == [j \in 1..n |-> IF j <= Len(key) THEN key[j] ELSE 0]

CommonNonZero(region, n) ==
    \A j \in 0..(n - 1) :
        /\ BeByte(region[1].cache, j) # 0
        /\ \A k \in 1..Len(region) : BeByte(region[k].cache, j) = BeByte(region[1].cache, j)

\* the number of leading bytes of the anchor cache that every cache of the
\* region shares and that are not 0x00, counted up to the first 0x00
LeadingCommonNonZero(region) ==
    CHOOSE n \in 0..SPLICE_PREFIX_SIZE :
        /\ CommonNonZero(region, n)
        /\ n < SPLICE_PREFIX_SIZE => ~CommonNonZero(region, n + 1)

\* the step from this state is a block skip of n bytes: the radix step is
\* back at the head of its loop with cp_len advanced by n; every offset it
\* went over holds the same real byte, not 0x00, in every key of the region;
\* the rows stay where they are and the keys compare from the new cp_len on
\* as they compare in full
SkippedOver(n) ==
    LET cp == Top.cp_len
        rows == (Top.lo + 1)..Top.hi
        key(k) == get_key(provider, ptrs[k].index)
    IN /\ Len(stack') = Len(stack)
       /\ stack'[1].at = "loop"
       /\ stack'[1].cp_len = cp + n
       /\ \A k \in rows :
             /\ Len(key(k)) >= cp + n
             /\ \A o \in (cp + 1)..(cp + n) :
                   key(k)[o] # 0 /\ key(k)[o] = key(Top.lo + 1)[o]
       /\ collect_indices(ptrs') = collect_indices(ptrs)
       /\ \A j, k \in rows :
             KeyCmp(SliceFrom(key(j), cp + n), SliceFrom(key(k), cp + n))
                 = KeyCmp(key(j), key(k))

(***************************************************************************)
(* C15: in every iteration of the block-skip loop the bytes skipped are    *)
(* the leading bytes of the anchor cache that all caches of the region     *)
(* share and that are not 0x00, up to the first 0x00 (none: the iteration  *)
(* goes on to the histogram); every offset cp_len is advanced over holds a *)
(* real, identical, non-zero byte in every key of the region, so cp_len    *)
(* stays within the shortest key, and the order of the keys is unchanged.  *)
(***************************************************************************)
C15_NeverCrossesZero ==
    [][InRadix("loop") =>
          LET n == LeadingCommonNonZero(Region(ptrs, Top.lo, Top.hi))
          IN IF n > 0 THEN SkippedOver(n)
                      ELSE stack'[1].at = "buckets" /\ stack'[1].cp_len = Top.cp_len]_vars

\* the loop skipped bytes and stopped in front of 0x00 where a key ends:
\* cp_len is the length of the shortest key of the region
C15_Witness ==
    /\ InRadix("loop")
    /\ Top.bytes_since_load > 0
    /\ \A k \in (Top.lo + 1)..Top.hi : TopByte(ptrs[k]) = 0
    /\ \E k \in (Top.lo + 1)..Top.hi : Len(get_key(provider, ptrs[k].index)) = Top.cp_len
    /\ \E k \in (Top.lo + 1)..Top.hi : Len(get_key(provider, ptrs[k].index)) > Top.cp_len

\* byte o (from 0) of a key, 0x00 past its end
KeyByte(key, o) == IF o < Len(key) THEN key[o + 1] ELSE 0

\* at the head of the loop the top 8 - bytes_since_load bytes of every cache
\* of the region are the key's bytes from cp_len on, zero-padded; the digit
\* the histogram reads is the key's byte at cp_len, or 0x00
CacheExposed ==
    InRadix("loop") =>
        \A k \in (Top.lo + 1)..Top.hi :
            LET key == get_key(provider, ptrs[k].index)
            IN /\ \A j \in 0..(SPLICE_PREFIX_SIZE - Top.bytes_since_load - 1) :
                     BeByte(ptrs[k].cache, j) = KeyByte(key, Top.cp_len + j)
               /\ TopByte(ptrs[k]) = KeyByte(key, Top.cp_len)

\* the counter of every radix step is below the size of the cache
CounterInRange ==
    \A n \in 1..Len(stack) :
        stack[n].bytes_since_load >= 0 /\ stack[n].bytes_since_load < SPLICE_PREFIX_SIZE

\* the block skip taken from this state reloads when the counter reaches the
\* size of the cache and shifts otherwise
ReloadedOrShifted ==
    LET safe == stack'[1].cp_len - Top.cp_len
        since == Top.bytes_since_load + safe
        rows == (Top.lo + 1)..Top.hi
    IN /\ since <= SPLICE_PREFIX_SIZE
       /\ IF since = SPLICE_PREFIX_SIZE
          THEN /\ stack'[1].bytes_since_load = 0
               /\ \A k \in rows : ptrs'[k] = SortPtr(ptrs[k].index,
                                                     ExactCache(ptrs[k], stack'[1].cp_len))
          ELSE /\ stack'[1].bytes_since_load = since
               /\ safe * BYTE_BITS >= BYTE_BITS
               /\ safe * BYTE_BITS <= (SPLICE_PREFIX_SIZE - 1) * BYTE_BITS
               /\ \A k \in rows : ptrs'[k] = SortPtr(ptrs[k].index,
                                                     Shl(ptrs[k].cache, safe * BYTE_BITS))

(***************************************************************************)
(* C16: bytes_since_load never exceeds the size of the cache; a block skip *)
(* reloads the caches at the new cp_len exactly when the counter reaches   *)
(* that size, and resets it, and otherwise shifts every cache left by      *)
(* safe_bytes bytes, between one byte and one byte less than the cache; at *)
(* the head of every iteration, the histogram's included, the top          *)
(* 8 - bytes_since_load bytes of every cache are the key's bytes from      *)
(* cp_len on, zero-padded, so the digit is the key's byte at cp_len or 0.  *)
(***************************************************************************)
C16_ShiftReload ==
    /\ []CounterInRange
    /\ []CacheExposed
    /\ [][InRadix("loop") /\ stack'[1].at = "loop" /\ stack' # stack
            => ReloadedOrShifted]_vars

\* the histogram has counted two digits after a shift of seven bytes, the
\* longest there is
C16_Witness ==
    /\ InRadix("buckets")
    /\ Top.bytes_since_load = SPLICE_PREFIX_SIZE - 1
    /\ Top.counts[0] > 0
    /\ Top.counts[1] > 0

(***************************************************************************)
(* The histogram pass of aqs_radix, lines 264-310, one action per loop     *)
(* iteration, on a region the block skip has left (safe_bytes = 0).        *)
(* `data` keeps the region as it was before the pass.                      *)
(***************************************************************************)
\* the region whose pointer k - 1, at position k, has the top byte d[k]
PassRegion(d) ==
    [k \in 1..Len(d) |-> SortPtr(k - 1, Shl(d[k], (SPLICE_PREFIX_SIZE - 1) * BYTE_BITS))]

\* the frame of the pass: CallFrame and the locals of the loops
PassFrame(n) ==
    [fn |-> "aqs_radix", at |-> "count", lo |-> 0, hi |-> n, cp_len |-> 0,
     allow_radix |-> TRUE, bytes_since_load |-> 0,
     counts |-> NoCounts, start |-> 0, b |-> 0,
     k |-> 0, offsets |-> NoCounts, cur_offsets |-> NoCounts,
     aux |-> new_aux(n), positions |-> <<>>]

InitPass ==
    /\ api = "aqs_radix"
    /\ \E n \in (RADIX_SORT_THRESHOLD + 1)..MaxRows :
         \E d \in [1..n -> Buckets] : ptrs = PassRegion(d)
    /\ safe_bytes(ptrs) = 0
    /\ data = ptrs
    /\ stack = <<PassFrame(Len(ptrs))>>
    /\ provider = <<>> /\ offset = 0 /\ pc = "sorting"
    /\ driverCalls = 0 /\ result = <<>>
    /\ indices = <<>> /\ i = 0 /\ current = 0 /\ swaps = 0

InPass(at) == pc = "sorting" /\ api = "aqs_radix" /\ stack # <<>> /\ Top.at = at

\* lines 271-274, one pointer
PassCount ==
    /\ InPass("count")
    /\ Top.k < Len(ptrs)
    /\ stack' = <<[Top EXCEPT !.counts = count_one(Top.counts, ptrs[Top.k + 1]),
                              !.k = Top.k + 1]>>
    /\ UNCHANGED <<api, provider, offset, pc, ptrs, driverCalls, result, permVars>>

\* lines 281-297: the offsets, and cur_offsets = offsets
PassOffsets ==
    /\ InPass("count")
    /\ Top.k = Len(ptrs)
    /\ stack' = <<[Top EXCEPT !.at = "scatter", !.k = 0,
                              !.offsets = prefix_sums(Top.counts),
                              !.cur_offsets = prefix_sums(Top.counts)]>>
    /\ UNCHANGED <<api, provider, offset, pc, ptrs, driverCalls, result, permVars>>

\* lines 301-308, one pointer
PassScatter ==
    /\ InPass("scatter")
    /\ Top.k < Len(ptrs)
    /\ LET one == scatter_one(Top.aux, Top.cur_offsets, ptrs[Top.k + 1])
       IN stack' = <<[Top EXCEPT !.aux = one.aux,
                                 !.cur_offsets = one.cur_offsets,
                                 !.positions = Append(Top.positions, one.pos),
                                 !.k = Top.k + 1]>>
    /\ UNCHANGED <<api, provider, offset, pc, ptrs, driverCalls, result, permVars>>

\* line 310: ptrs.copy_from_slice(aux_slice)
PassCopyBack ==
    /\ InPass("scatter")
    /\ Top.k = Len(ptrs)
    /\ ptrs' = Top.aux
    /\ stack' = <<[Top EXCEPT !.at = "buckets"]>>
    /\ pc' = "done"
    /\ UNCHANGED <<api, provider, offset, driverCalls, result, permVars>>

NextPass == PassCount \/ PassOffsets \/ PassScatter \/ PassCopyBack

SpecPass == InitPass /\ [][NextPass]_vars

\* the region before the pass has this many pointers with top byte b / below b
CountOf(b) == Cardinality({k \in 1..Len(data) : TopByte(data[k]) = b})
CountBelow(b) == Cardinality({k \in 1..Len(data) : TopByte(data[k]) < b})

\* where the pointer at position k of the region stood before the pass
StoodAt(k) == CHOOSE j \in 1..Len(data) : data[j] = ptrs[k]

(***************************************************************************)
(* C17: the offsets of the buckets are the exclusive prefix sums of the    *)
(* counts, which count the pointers of each top byte and sum to n; every   *)
(* position the scatter writes is in [0, n) and no slot is written twice,  *)
(* so at the end each of the n slots was written once; after the copy      *)
(* back the region holds the pointers it held, in ascending order of their *)
(* top byte, those of one top byte in the order they had.                  *)
(***************************************************************************)
C17_StableCounting ==
    /\ Top.at \in {"scatter", "buckets"} =>
          /\ \A b \in Buckets : Top.counts[b] = CountOf(b)
          /\ \A b \in Buckets : Top.offsets[b] = CountBelow(b)
          /\ CountBelow(RADIX_BUCKETS) = Len(data)
    /\ \A j \in 1..Len(Top.positions) :
          /\ Top.positions[j] >= 0 /\ Top.positions[j] < Len(data)
          /\ \A k \in 1..Len(Top.positions) : j # k => Top.positions[j] # Top.positions[k]
    /\ Returned =>
          /\ Len(Top.positions) = Len(data)
          /\ SameElements(ptrs, data)
          /\ \A j, k \in 1..Len(ptrs) :
                j < k => /\ TopByte(ptrs[j]) <= TopByte(ptrs[k])
                         /\ TopByte(ptrs[j]) = TopByte(ptrs[k]) => StoodAt(j) < StoodAt(k)

\* the pass has moved a pointer of the zero bucket in front of two pointers
\* of one other bucket, which kept their order
C17_Witness ==
    /\ Returned
    /\ api = "aqs_radix"
    /\ Len(ptrs) > RADIX_SORT_THRESHOLD
    /\ TopByte(data[1]) = 1 /\ TopByte(data[2]) = 1 /\ TopByte(data[3]) = 0
    /\ ptrs[1] = data[3] /\ ptrs[2] = data[1] /\ ptrs[3] = data[2]

\* the histogram pass has just ended: no bucket is dispatched yet
PassJustEnded == InRadix("buckets") /\ Top.b = 0 /\ Top.start = 0

\* one bucket holds the whole region exactly when every top byte is 0x00
WholeRegionOnlyZero ==
    PassJustEnded =>
        ((\E b \in Buckets : Top.counts[b] = Top.hi - Top.lo)
            <=> (\A k \in (Top.lo + 1)..Top.hi : TopByte(ptrs[k]) = 0))

\* the step from this state dispatches the next bucket: the pointers of the
\* least top byte not yet dispatched, caches reloaded at cp_len + 1, to the
\* driver with cp_len + 1, and with allow_radix = false exactly when the
\* bucket is the whole region
Dispatched ==
    LET child == stack'[1]
        rows == (child.lo + 1)..child.hi
        b == TopByte(ptrs[child.lo + 1])
    IN /\ child.fn = "cps_quicksort" /\ child.at = "call"
       /\ child.cp_len = Top.cp_len + 1
       /\ child.lo = Top.lo + Top.start
       /\ child.hi > child.lo /\ child.hi <= Top.hi
       /\ b >= Top.b /\ stack'[2].b = b + 1
       /\ \A k \in rows : TopByte(ptrs[k]) = b
       /\ \A k \in (child.hi + 1)..Top.hi : TopByte(ptrs[k]) > b
       /\ child.allow_radix <=> (child.hi - child.lo) # (Top.hi - Top.lo)
       /\ ~child.allow_radix => b = 0
       /\ \A k \in rows :
             ptrs'[k] = SortPtr(ptrs[k].index, ExactCache(ptrs[k], child.cp_len))

(***************************************************************************)
(* C18: after the histogram pass one bucket holds the whole region exactly *)
(* when the top byte of every cache is 0x00; the buckets that are not      *)
(* empty are dispatched in ascending order of their top byte, each with    *)
(* its caches reloaded at cp_len + 1 and with cp_len + 1, the bucket that  *)
(* is the whole region with allow_radix = false and every other one with   *)
(* allow_radix = true.                                                     *)
(***************************************************************************)
C18_DegenerateVeto ==
    /\ []WholeRegionOnlyZero
    /\ [][InRadix("buckets") /\ Len(stack') > Len(stack) => Dispatched]_vars

\* the zero bucket of the input went through the radix step with
\* allow_radix = true, fell whole into its own zero bucket, and that bucket
\* is at the driver under the veto
C18_Witness ==
    /\ InDriver
    /\ ~Top.allow_radix
    /\ Top.cp_len = 2
    /\ Top.hi - Top.lo > RADIX_SORT_THRESHOLD
    /\ Top.hi - Top.lo < Len(provider)

\* apply_permutation runs on: a step that can be taken is taken
FairSpecPerm == InitPerm /\ [][NextPerm]_vars /\ WF_vars(NextPerm)

\* the positions pi leads to from x in at most n steps
RECURSIVE Walk(_, _, _)
Walk(pi, x, n) == IF n = 0 THEN {x} ELSE {x} \cup Walk(pi, pi[x + 1], n - 1)

\* the number of cycles of the permutation pi, fixed points included
Cycles(pi) == Cardinality({Walk(pi, x, Len(pi)) : x \in 0..(Len(pi) - 1)})

\* every index the loops use is inside the slice and the index vector
InBounds ==
    InPermute =>
        /\ current >= 0 /\ current < Len(indices)
        /\ indices[current + 1] >= 0 /\ indices[current + 1] < Len(data)

\* an entry of the index vector that was written is the marker of its
\* position, and the element of that position is placed
MarkedIsPlaced ==
    \A k \in 1..Len(indices) :
        indices[k] # result[k] =>
            indices[k] = k - 1 /\ data[k] = provider[result[k] + 1]

(***************************************************************************)
(* C19: for every permutation pi of [0, N) apply_permutation returns; it   *)
(* never makes more than N swaps, and on return it has made N minus the    *)
(* number of cycles of pi (k - 1 for a cycle of length k, none for a fixed *)
(* point); it indexes inside the slice; every position is marked as soon   *)
(* as its element is placed, and on return the index vector is the         *)
(* identity.                                                               *)
(***************************************************************************)
C19_CycleWalk ==
    /\ <>Returned
    /\ [](swaps <= Len(data))
    /\ []InBounds
    /\ []MarkedIsPlaced
    /\ [](Returned => /\ indices = Identity(Len(data))
                      /\ swaps = Len(data) - Cycles(result))
    /\ [][pc = "permute" /\ indices' # indices =>
            /\ indices' = [indices EXCEPT ![current + 1] = current]
            /\ data'[current + 1] = provider[result[current + 1] + 1]]_vars

\* returned from one cycle through all positions of the longest sequence:
\* one swap less than positions, the index vector the identity
C19_Witness ==
    /\ Returned
    /\ api = "apply_permutation"
    /\ Len(data) = MaxPermLen
    /\ Cycles(result) = 1
    /\ swaps = MaxPermLen - 1
    /\ indices = Identity(MaxPermLen)

=============================================================================
